---- MODULE Spec2Model ----
(***************************************************************************)
(* Urban-Mobility-Explorer: the trip ingestion pipeline.                   *)
(*                                                                         *)
(*   processRow, processCSVFile, processSampleData (data processor),       *)
(*   the process-data command-line script (main) and clearAndReload;       *)
(*   calculateSpeed and calculateHaversineDistance (algorithms);           *)
(*   the GET /api/trips and GET /api/export handlers (routes).             *)
(*                                                                         *)
(*   Spec      one invocation of a command-line script                     *)
(*   CallSpec  the functions applied on their own to given arguments       *)
(*   PairSpec  two runs in one process, their events interleaved           *)
(*   ApiSpec   the server answering one request                            *)
(*                                                                         *)
(* Text is modelled as a sequence of one-character strings, so that trim,  *)
(* parseInt, parseFloat and the Date constructor are computed and not      *)
(* assumed.  Coordinates are fixed-point numbers in units of 1e-4 degree,  *)
(* distances are in metres and speeds in metres per hour.                  *)
(***************************************************************************)
EXTENDS Integers, Sequences, FiniteSets, TLC

(***************************************************************************)
(* Bounds of the model.                                                    *)
(***************************************************************************)
\* rows the source delivers in one run, at most
MaxRows == 3
\* largest batchSize argument tried (1000 and 500 are the defaults)
MaxBatch == 2
\* largest sampleSize argument tried (main passes 10000)
MaxSample == 2

(***************************************************************************)
(* Numbers as JavaScript has them: a value or NaN.                         *)
(***************************************************************************)
NaN == [nan |-> TRUE, v |-> 0]

Num(n) == [nan |-> FALSE, v |-> n]

isNaN(x) == x.nan

Abs(n) == IF n < 0 THEN -n ELSE n

(***************************************************************************)
(* Text.                                                                   *)
(***************************************************************************)
DigitChars == <<"0", "1", "2", "3", "4", "5", "6", "7", "8", "9">>

IsDigit(c) == \E i \in 1..10 : DigitChars[i] = c

DigitVal(c) == (CHOOSE i \in 1..10 : DigitChars[i] = c) - 1

IsSpace(c) == c \in {" ", "\t"}

RECURSIVE TrimStart(_)
TrimStart(s) ==
  IF s # <<>> /\ IsSpace(Head(s)) THEN TrimStart(Tail(s)) ELSE s

RECURSIVE TrimEnd(_)
TrimEnd(s) ==
  IF s # <<>> /\ IsSpace(s[Len(s)]) THEN TrimEnd(SubSeq(s, 1, Len(s) - 1)) ELSE s

\* String.prototype.trim
trim(s) == TrimEnd(TrimStart(s))

\* the longest prefix of s made of digits
RECURSIVE DigitPrefix(_)
DigitPrefix(s) ==
  IF s # <<>> /\ IsDigit(Head(s)) THEN <<Head(s)>> \o DigitPrefix(Tail(s)) ELSE <<>>

RECURSIVE DigitsValue(_, _)
DigitsValue(s, acc) ==
  IF s = <<>> THEN acc ELSE DigitsValue(Tail(s), acc * 10 + DigitVal(Head(s)))

\* leading sign of a numeric literal: <<sign, rest>>
SignSplit(s) ==
  IF s # <<>> /\ Head(s) = "-" THEN <<-1, Tail(s)>>
  ELSE IF s # <<>> /\ Head(s) = "+" THEN <<1, Tail(s)>>
  ELSE <<1, s>>

\* parseInt(s): leading white space, a sign, then the decimal digits up to the
\* first character that is no digit; NaN when there is no digit.
parseInt(s) ==
  LET p == SignSplit(TrimStart(s))
      d == DigitPrefix(p[2])
  IN  IF d = <<>> THEN NaN ELSE Num(p[1] * DigitsValue(d, 0))

\* the first n characters of s, padded with "0"
PadDigits(s, n) == [i \in 1..n |-> IF i <= Len(s) THEN s[i] ELSE "0"]

\* parseFloat(s) in units of 1e-4: leading white space, a sign, digits, and an
\* optional "." followed by digits; NaN when there is no digit at all.
parseFloat(s) ==
  LET p    == SignSplit(TrimStart(s))
      ip   == DigitPrefix(p[2])
      rest == SubSeq(p[2], Len(ip) + 1, Len(p[2]))
      fp   == IF rest # <<>> /\ Head(rest) = "." THEN DigitPrefix(Tail(rest)) ELSE <<>>
  IN  IF ip = <<>> /\ fp = <<>> THEN NaN
      ELSE Num(p[1] * (DigitsValue(ip, 0) * 10000 + DigitsValue(PadDigits(fp, 4), 0)))

(***************************************************************************)
(* new Date(text), getHours() and getDay(), for the data set's             *)
(* "YYYY-MM-DD HH:MM:SS" local times (a time zone without clock changes).  *)
(***************************************************************************)
InvalidDate == [nan |-> TRUE, y |-> 0, mo |-> 0, d |-> 0, h |-> 0, mi |-> 0, s |-> 0]

AllDigits(s) == \A i \in 1..Len(s) : IsDigit(s[i])

Field(s, a, b) == DigitsValue(SubSeq(s, a, b), 0)

\* days since 1970-01-01 of a civil date; a day past the month's end runs on
\* into the next month, as the Date constructor has it
DaysFromCivil(y, m, d) ==
  LET yy  == IF m <= 2 THEN y - 1 ELSE y
      era == yy \div 400
      yoe == yy - era * 400
      mp  == (m + 9) % 12
      doy == (153 * mp + 2) \div 5 + d - 1
      doe == yoe * 365 + yoe \div 4 - yoe \div 100 + doy
  IN  era * 146097 + doe - 719468

newDate(s) ==
  IF /\ Len(s) = 19
     /\ s[5] = "-" /\ s[8] = "-" /\ s[11] \in {" ", "T"} /\ s[14] = ":" /\ s[17] = ":"
     /\ AllDigits(SubSeq(s, 1, 4)) /\ AllDigits(SubSeq(s, 6, 7))
     /\ AllDigits(SubSeq(s, 9, 10)) /\ AllDigits(SubSeq(s, 12, 13))
     /\ AllDigits(SubSeq(s, 15, 16)) /\ AllDigits(SubSeq(s, 18, 19))
     /\ Field(s, 6, 7) \in 1..12
     /\ Field(s, 9, 10) \in 1..31
     /\ Field(s, 12, 13) \in 0..23
     /\ Field(s, 15, 16) \in 0..59
     /\ Field(s, 18, 19) \in 0..59
  THEN [nan |-> FALSE, y |-> Field(s, 1, 4), mo |-> Field(s, 6, 7), d |-> Field(s, 9, 10),
        h |-> Field(s, 12, 13), mi |-> Field(s, 15, 16), s |-> Field(s, 18, 19)]
  ELSE InvalidDate

getHours(dt) == dt.h

\* getDay with the week counted from Monday (0 = Monday)
getDayMondayFirst(dt) == (DaysFromCivil(dt.y, dt.mo, dt.d) + 3) % 7

\* 1970-01-01 was a Thursday (4)
getDay(dt) == (DaysFromCivil(dt.y, dt.mo, dt.d) + 4) % 7

(***************************************************************************)
(* calculateHaversineDistance and calculateSpeed in fixed point: angles in *)
(* micro-radians, sines and cosines in millionths, the result in metres.   *)
(***************************************************************************)
Sgn(n) == IF n < 0 THEN -1 ELSE 1

\* x * y / 10^6 from the thousands and the units of x and of y
Mul6Parts(xh, xl, yh, yl) ==
  xh * yh + (xh * yl + xl * yh) \div 1000 + (xl * yl) \div 1000000

Mul6Abs(x, y) == Mul6Parts(x \div 1000, x % 1000, y \div 1000, y % 1000)

\* a * b / 10^6 for |a|, |b| up to about 2 * 10^6, without 32-bit overflow
Mul6(a, b) == Sgn(a) * Sgn(b) * Mul6Abs(Abs(a), Abs(b))

\* n / 2 rounded towards zero
Half(n) == Sgn(n) * (Abs(n) \div 2)

ToRadAbs(u) == (u * 1745 + (u * 329) \div 1000) \div 1000

\* toRad: degrees (in 1e-4 degree) to micro-radians, deg * pi / 180
toRad(u) == Sgn(u) * ToRadAbs(Abs(u))

\* x - x^3 / 6 + x^5 / 120
SinTerms(x, x3, x5) == x - x3 \div 6 + x5 \div 120

SinPowers(x, x2, x3) == SinTerms(x, x3, Mul6(x3, x2))

SinSquare(x, x2) == SinPowers(x, x2, Mul6(x2, x))

\* Math.sin of x micro-radians, in millionths
Sin(x) == SinSquare(x, Mul6(x, x))

\* 1 - x^2 / 2 + x^4 / 24 - x^6 / 720 + x^8 / 40320
CosTerms(x2, x4, x6, x8) ==
  1000000 - x2 \div 2 + x4 \div 24 - x6 \div 720 + x8 \div 40320

CosPowers(x2, x4) == CosTerms(x2, x4, Mul6(x4, x2), Mul6(x4, x4))

CosSquare(x2) == CosPowers(x2, Mul6(x2, x2))

\* Math.cos of x micro-radians, in millionths
Cos(x) == CosSquare(Mul6(x, x))

\* Math.sqrt of a natural number, rounded down
RECURSIVE SqrtBetween(_, _, _)
SqrtBetween(n, lo, hi) ==
  IF lo >= hi THEN lo
  ELSE IF ((lo + hi + 1) \div 2) * ((lo + hi + 1) \div 2) <= n
       THEN SqrtBetween(n, (lo + hi + 1) \div 2, hi)
       ELSE SqrtBetween(n, lo, (lo + hi + 1) \div 2 - 1)

Sqrt(n) == SqrtBetween(n, 0, 46340)

\* Earth's radius in kilometers
R == 6371

\* t - t^3 / 3
AtanTerms(t, t2) == t - Mul6(t2, t) \div 3

\* Math.atan2(y, x) for 0 <= y much smaller than x, both in millionths: the
\* arc tangent of t = y / x, in micro-radians
Atan2Small(y, x) ==
  AtanTerms(y + (y * (1000000 - x)) \div x, Mul6(y + (y * (1000000 - x)) \div x,
                                                  y + (y * (1000000 - x)) \div x))

\* c = 2 * atan2(sqrt(a), sqrt(1 - a)) in micro-radians, a in units of 1e-12;
\* sqrt(1 - a) is 1 - a / 2 to the millionth
HaversineC(a) == 2 * Atan2Small(Sqrt(a), 1000000 - a \div 2000000)

\* a = sin^2(dLat / 2) + cos(lat1) * cos(lat2) * sin^2(dLon / 2), in 1e-12
HaversineA(sLat, sLon, cosLat1, cosLat2) ==
  sLat * sLat + Mul6(sLon * sLon, Mul6(cosLat1, cosLat2))

\* calculateHaversineDistance with cos(lat1) taken twice, for cos(lat1) * cos(lat2)
calculateHaversineDistanceOneCosine(lat1, lon1, lat2, lon2) ==
  (R * HaversineC(HaversineA(Sin(Half(toRad(lat2 - lat1))),
                             Sin(Half(toRad(lon2 - lon1))),
                             Cos(toRad(lat1)),
                             Cos(toRad(lat1))))) \div 1000

\* the distance in metres between two points given in 1e-4 degree
calculateHaversineDistance(lat1, lon1, lat2, lon2) ==
  (R * HaversineC(HaversineA(Sin(Half(toRad(lat2 - lat1))),
                             Sin(Half(toRad(lon2 - lon1))),
                             Cos(toRad(lat1)),
                             Cos(toRad(lat2))))) \div 1000

\* calculateSpeed without the test for 0 s: the division by 0 gives Infinity,
\* rendered here as the largest 32-bit integer
calculateSpeedUnguarded(distanceM, durationSeconds) ==
  IF durationSeconds = 0 THEN 2147483647
  ELSE Sgn(durationSeconds) * ((distanceM * 3600) \div Abs(durationSeconds))

\* the speed in metres per hour: distance / (duration / 3600), and 0 for 0 s
calculateSpeed(distanceM, durationSeconds) ==
  IF durationSeconds = 0 THEN 0
  ELSE Sgn(durationSeconds) * ((distanceM * 3600) \div Abs(durationSeconds))

(***************************************************************************)
(* isValidNYCCoordinate, isOutlier, processRow.                            *)
(***************************************************************************)
\* NYC_BOUNDS, in 1e-4 degree
NYC_BOUNDS == [minLat |-> 404000, maxLat |-> 410000, minLon |-> -743000, maxLon |-> -737000]

\* isValidNYCCoordinate with the longitude left untested
isValidNYCCoordinateLatOnly(lat, lon) ==
  /\ lat >= NYC_BOUNDS.minLat
  /\ lat <= NYC_BOUNDS.maxLat

isValidNYCCoordinate(lat, lon) ==
  /\ lat >= NYC_BOUNDS.minLat
  /\ lat <= NYC_BOUNDS.maxLat
  /\ lon >= NYC_BOUNDS.minLon
  /\ lon <= NYC_BOUNDS.maxLon

\* duration in seconds, distance in metres, speed in metres per hour
isOutlier(duration, distance, speed) ==
  \/ duration < 60 \/ duration > 3600 * 5
  \/ distance < 100 \/ distance > 100000
  \/ speed < 1000 \/ speed > 100000

\* processRow's "return null"
Null == [null |-> TRUE]

processRow(row) ==
  LET id              == trim(row.id)
      vendorId        == parseInt(row.vendor_id)
      passengerCount  == parseInt(row.passenger_count)
      pickupLon       == parseFloat(row.pickup_longitude)
      pickupLat       == parseFloat(row.pickup_latitude)
      dropoffLon      == parseFloat(row.dropoff_longitude)
      dropoffLat      == parseFloat(row.dropoff_latitude)
      tripDuration    == parseInt(row.trip_duration)
      storeAndFwdFlag == trim(row.store_and_fwd_flag)
      pickupDatetime  == newDate(row.pickup_datetime)
      dropoffDatetime == newDate(row.dropoff_datetime)
      tripDistance    == calculateHaversineDistance(pickupLat.v, pickupLon.v,
                                                    dropoffLat.v, dropoffLon.v)
      tripSpeed       == calculateSpeed(tripDistance, tripDuration.v)
      hourOfDay       == getHours(pickupDatetime)
      dayOfWeek       == getDay(pickupDatetime)
      isWeekend       == IF dayOfWeek = 0 \/ dayOfWeek = 6 THEN 1 ELSE 0
  IN  IF \/ id = <<>>
         \/ isNaN(vendorId)
         \/ isNaN(passengerCount)
         \/ isNaN(pickupLon)
         \/ isNaN(pickupLat)
         \/ isNaN(dropoffLon)
         \/ isNaN(dropoffLat)
         \/ isNaN(tripDuration)
         \/ storeAndFwdFlag = <<>>
      THEN Null
      ELSE IF \/ ~isValidNYCCoordinate(pickupLat.v, pickupLon.v)
              \/ ~isValidNYCCoordinate(dropoffLat.v, dropoffLon.v)
      THEN Null
      ELSE IF isNaN(pickupDatetime) \/ isNaN(dropoffDatetime)
      THEN Null
      ELSE IF isOutlier(tripDuration.v, tripDistance, tripSpeed)
      THEN Null
      ELSE [id |-> id,
            vendorId |-> vendorId.v,
            pickupDatetime |-> pickupDatetime,
            dropoffDatetime |-> dropoffDatetime,
            passengerCount |-> passengerCount.v,
            pickupLongitude |-> pickupLon.v,
            pickupLatitude |-> pickupLat.v,
            dropoffLongitude |-> dropoffLon.v,
            dropoffLatitude |-> dropoffLat.v,
            storeAndFwdFlag |-> storeAndFwdFlag,
            tripDuration |-> tripDuration.v,
            tripSpeed |-> tripSpeed,
            tripDistance |-> tripDistance,
            hourOfDay |-> hourOfDay,
            dayOfWeek |-> dayOfWeek,
            isWeekend |-> isWeekend]

(***************************************************************************)
(* The rows a source may deliver (RawTripData, every field a text).        *)
(***************************************************************************)
BaseRow ==
  [id                 |-> <<"a">>,
   vendor_id          |-> <<"2">>,
   pickup_datetime    |-> <<"2","0","1","6","-","0","3","-","1","4"," ","1","7",":","2","4",":","5","5">>,
   dropoff_datetime   |-> <<"2","0","1","6","-","0","3","-","1","4"," ","1","7",":","3","4",":","5","5">>,
   passenger_count    |-> <<"1">>,
   pickup_longitude   |-> <<"-","7","4",".","0","0","6","0">>,
   pickup_latitude    |-> <<"4","0",".","7","1","2","8">>,
   dropoff_longitude  |-> <<"-","7","3",".","9","3","5","2">>,
   dropoff_latitude   |-> <<"4","0",".","7","3","0","6">>,
   store_and_fwd_flag |-> <<"N">>,
   trip_duration      |-> <<"6","0","0">>]

\* well-formed rows with the identifiers "a", "a " and "b"
RowA == BaseRow

RowASpace == [BaseRow EXCEPT !.id = <<"a", " ">>]

RowB == [BaseRow EXCEPT !.id = <<"b">>]

\* identifier "a", passenger_count is no number (malformed)
RowMalformedA == [BaseRow EXCEPT !.passenger_count = <<"x">>]

\* identifier "b", pickup latitude 45.0 (out of bounds)
RowOutOfBoundsB == [BaseRow EXCEPT !.id = <<"b">>, !.pickup_latitude = <<"4","5",".","0">>]

\* identifier "a", trip_duration 30 s (outlier)
RowOutlierA == [BaseRow EXCEPT !.trip_duration = <<"3","0">>]

Rows == {RowA, RowASpace, RowB, RowMalformedA, RowOutOfBoundsB, RowOutlierA}

(***************************************************************************)
(* The state of one invocation of a command-line script.                   *)
(***************************************************************************)
VARIABLES
  entry,       \* the script run: "main" (process-data) or "clearAndReload"
  isFull,      \* main: args.includes('full'); clearAndReload always runs full
  batchSize,   \* the batchSize argument of the run
  sampleSize,  \* the sampleSize argument of processSampleData (0 in a full run)
  deleted,     \* clearAndReload: db.delete(trips) has completed
  prepFailed,  \* clearAndReload: the awaited sink operation that threw before
               \* the run: "no", "delete", "count"
  pc,          \* where the script is: "start", "deleting", "counting",
               \* "running" (awaiting the run's promise), "exited"
  exitCode,    \* the code the process ended with, or NoExit
  reported,    \* the stats the script printed at its end, or NoStats
  stream,      \* the csv stream: "none", "flowing", "paused", "destroyed",
               \* "ended" ('end' emitted), "errored"
  srcFailed,   \* the source failure that happened: "no", "parser", "file"
  rows,        \* the rows the stream has delivered to the 'data' handler
  stats,       \* ProcessingStats
  batch,       \* InsertTrip[]
  seenIds,     \* Set<string>
  inserts,     \* the bulk inserts handed to the sink, in order
  result,      \* the promise the run returned: pending, resolved, rejected
  call,        \* a function of the program applied on its own: its name and
               \* its arguments, or NoCall
  returned,    \* what the applications of call have returned, in order
  runs,        \* two runs in one process, each with its own locals, or NoRuns
  request,     \* the HTTP request the server is answering, or NoRequest
  response     \* the answer sent to request, or NoResponse

args == <<entry, isFull, batchSize, sampleSize>>

\* the state of one script invocation
scriptVars == <<entry, isFull, batchSize, sampleSize, deleted, prepFailed, pc, exitCode, reported,
                stream, srcFailed, rows, stats, batch, seenIds, inserts, result>>

\* the state outside the script invocation
aside == <<call, returned, runs, request, response>>

vars == <<entry, isFull, batchSize, sampleSize, deleted, prepFailed, pc, exitCode, reported, stream,
          srcFailed, rows, stats, batch, seenIds, inserts, result,
          call, returned, runs, request, response>>

NoCall == [none |-> TRUE]

NoRuns == [none |-> TRUE]

NoRequest == [none |-> TRUE]

NoResponse == [none |-> TRUE]

\* nothing but the script invocation is going on
AsideIdle ==
  /\ call = NoCall
  /\ returned = <<>>
  /\ runs = NoRuns
  /\ request = NoRequest
  /\ response = NoResponse

NoExit == -1

NoStats == [none |-> TRUE]

ZeroStats ==
  [totalRows |-> 0, validRows |-> 0, duplicates |-> 0, missingValues |-> 0,
   invalidCoordinates |-> 0, outliers |-> 0, inserted |-> 0]

PendingResult == [kind |-> "pending", stats |-> NoStats]

\* resolve(stats)
Resolved(st) == [kind |-> "resolved", stats |-> st]

\* reject(error): the error alone
Rejected == [kind |-> "rejected", stats |-> NoStats]

Init ==
  /\ entry \in {"main", "clearAndReload"}
  /\ isFull \in (IF entry = "main" THEN BOOLEAN ELSE {TRUE})
  /\ batchSize \in 1..MaxBatch
  /\ sampleSize \in (IF isFull THEN {0} ELSE 1..MaxSample)
  /\ deleted = FALSE
  /\ prepFailed = "no"
  /\ pc = "start"
  /\ exitCode = NoExit
  /\ reported = NoStats
  /\ stream = "none"
  /\ srcFailed = "no"
  /\ rows = <<>>
  /\ stats = ZeroStats
  /\ batch = <<>>
  /\ seenIds = {}
  /\ inserts = <<>>
  /\ result = PendingResult
  /\ AsideIdle

(***************************************************************************)
(* The 'data' handler up to its flush: count the row, test the seen-set,   *)
(* process the row, and keep it.                                           *)
(***************************************************************************)
\* onDataRow with a rejected row counted under outliers (a slip of the counter)
onDataRowCountsOutliers(run, row) ==
  LET counted   == [run EXCEPT !.stats.totalRows = @ + 1]
      processed == processRow(row)
  IN  IF row.id \in run.seenIds
      THEN [counted EXCEPT !.stats.duplicates = @ + 1]
      ELSE IF processed = Null
      THEN [counted EXCEPT !.stats.outliers = @ + 1]
      ELSE [counted EXCEPT !.seenIds = @ \cup {row.id},
                           !.batch = Append(@, processed),
                           !.stats.validRows = @ + 1]

\* onDataRow with the identifier marked seen before the row is validated
onDataRowMarksFirst(run, row) ==
  LET counted   == [run EXCEPT !.stats.totalRows = @ + 1, !.seenIds = @ \cup {row.id}]
      processed == processRow(row)
  IN  IF row.id \in run.seenIds
      THEN [counted EXCEPT !.stats.duplicates = @ + 1]
      ELSE IF processed = Null
      THEN [counted EXCEPT !.stats.missingValues = @ + 1]
      ELSE [counted EXCEPT !.batch = Append(@, processed),
                           !.stats.validRows = @ + 1]

\* onDataRow with the distance kept in a variable that outlives the row: the
\* distance of the batch's last record is added to the new record's
onDataRowLeaksBatch(run, row) ==
  LET counted   == [run EXCEPT !.stats.totalRows = @ + 1]
      processed == processRow(row)
      leaked    == IF run.batch = <<>> THEN 0 ELSE run.batch[Len(run.batch)].tripDistance
  IN  IF row.id \in run.seenIds
      THEN [counted EXCEPT !.stats.duplicates = @ + 1]
      ELSE IF processed = Null
      THEN [counted EXCEPT !.stats.missingValues = @ + 1]
      ELSE [counted EXCEPT !.seenIds = @ \cup {row.id},
                           !.batch = Append(@, [processed EXCEPT !.tripDistance = @ + leaked]),
                           !.stats.validRows = @ + 1]

\* onDataRow with the row validated before the seen-set is tested
onDataRowValidatesFirst(run, row) ==
  LET counted   == [run EXCEPT !.stats.totalRows = @ + 1]
      processed == processRow(row)
  IN  IF processed = Null
      THEN [counted EXCEPT !.stats.missingValues = @ + 1]
      ELSE IF row.id \in run.seenIds
      THEN [counted EXCEPT !.stats.duplicates = @ + 1]
      ELSE [counted EXCEPT !.seenIds = @ \cup {row.id},
                           !.batch = Append(@, processed),
                           !.stats.validRows = @ + 1]

\* onDataRow with the stored (trimmed) identifier marked seen, not the raw one
onDataRowMarksStored(run, row) ==
  LET counted   == [run EXCEPT !.stats.totalRows = @ + 1]
      processed == processRow(row)
  IN  IF row.id \in run.seenIds
      THEN [counted EXCEPT !.stats.duplicates = @ + 1]
      ELSE IF processed = Null
      THEN [counted EXCEPT !.stats.missingValues = @ + 1]
      ELSE [counted EXCEPT !.seenIds = @ \cup {processed.id},
                           !.batch = Append(@, processed),
                           !.stats.validRows = @ + 1]

onDataRow(run, row) ==
  LET counted   == [run EXCEPT !.stats.totalRows = @ + 1]
      processed == processRow(row)
  IN  IF row.id \in run.seenIds
      THEN [counted EXCEPT !.stats.duplicates = @ + 1]
      ELSE IF processed = Null
      THEN [counted EXCEPT !.stats.missingValues = @ + 1]
      ELSE [counted EXCEPT !.seenIds = @ \cup {row.id},
                           !.batch = Append(@, processed),
                           !.stats.validRows = @ + 1]

\* batch.length >= batchSize
batchIsFull(bt, size) == Len(bt) >= size

\* db.insert(trips).values(insertBatch): a bulk insert handed to the sink
NewInsert(insertBatch, kind) ==
  [batch |-> insertBatch, kind |-> kind, status |-> "inflight"]

\* thenInserted counting the insert, not its records
thenInsertedCountsOne(st, insertBatch) == [st EXCEPT !.inserted = @ + 1]

\* .then / after await: stats.inserted += insertBatch.length
thenInserted(st, insertBatch) == [st EXCEPT !.inserted = @ + Len(insertBatch)]

\* catchInsertError with the failed batch counted as inserted
catchInsertErrorCounts(st, insertBatch) == [st EXCEPT !.inserted = @ + Len(insertBatch)]

\* .catch / catch (error): console.error only
catchInsertError(st, insertBatch) == st

\* the events of the run are delivered while the process lives and the
\* script still awaits the run's promise
RunLive == pc = "running" /\ result.kind = "pending"

\* the source has more rows to give
MoreRows == Len(rows) < MaxRows

ThisRun == [stats |-> stats, seenIds |-> seenIds, batch |-> batch]

(***************************************************************************)
(* processCSVFile.                                                          *)
(***************************************************************************)
\* .on('data', (row) => ...)
FullOnData(row) ==
  /\ RunLive /\ isFull /\ stream = "flowing" /\ MoreRows
  /\ LET r == onDataRow(ThisRun, row)
     IN  /\ rows' = Append(rows, row)
         /\ stats' = r.stats
         /\ seenIds' = r.seenIds
         /\ IF r.stats.validRows > stats.validRows /\ batchIsFull(r.batch, batchSize)
            THEN /\ batch' = <<>>
                 /\ inserts' = Append(inserts, NewInsert(r.batch, "threshold"))
            ELSE /\ batch' = r.batch
                 /\ UNCHANGED inserts
  /\ UNCHANGED <<aside, args, deleted, prepFailed, pc, exitCode, reported,
                 stream, srcFailed, result>>

\* the .then of a threshold insert
FullInsertThen(i) ==
  /\ RunLive /\ isFull
  /\ inserts[i].kind = "threshold" /\ inserts[i].status = "inflight"
  /\ stats' = thenInserted(stats, inserts[i].batch)
  /\ inserts' = [inserts EXCEPT ![i].status = "ok"]
  /\ UNCHANGED <<aside, args, deleted, prepFailed, pc, exitCode, reported,
                 stream, srcFailed, rows, batch, seenIds, result>>

\* the .catch of a threshold insert
FullInsertCatch(i) ==
  /\ RunLive /\ isFull
  /\ inserts[i].kind = "threshold" /\ inserts[i].status = "inflight"
  /\ stats' = catchInsertError(stats, inserts[i].batch)
  /\ inserts' = [inserts EXCEPT ![i].status = "failed"]
  /\ UNCHANGED <<aside, args, deleted, prepFailed, pc, exitCode, reported,
                 stream, srcFailed, rows, batch, seenIds, result>>

(***************************************************************************)
(* processSampleData.                                                       *)
(***************************************************************************)
\* SampleOnData with the target tested by > in place of >=
SampleOnDataLateGuard(row) ==
  /\ RunLive /\ ~isFull /\ stream = "flowing" /\ MoreRows
  /\ rows' = Append(rows, row)
  /\ IF stats.validRows > sampleSize
     THEN /\ stream' = "destroyed"
          /\ UNCHANGED <<stats, seenIds, batch, inserts>>
     ELSE LET r == onDataRow(ThisRun, row)
          IN  /\ stats' = r.stats
              /\ seenIds' = r.seenIds
              /\ IF r.stats.validRows > stats.validRows /\ batchIsFull(r.batch, batchSize)
                 THEN /\ stream' = "paused"
                      /\ batch' = <<>>
                      /\ inserts' = Append(inserts, NewInsert(r.batch, "threshold"))
                 ELSE /\ batch' = r.batch
                      /\ UNCHANGED <<stream, inserts>>
  /\ UNCHANGED <<aside, args, deleted, prepFailed, pc, exitCode, reported,
                 srcFailed, result>>

\* .on('data', async (row) => ...) up to its await
SampleOnData(row) ==
  /\ RunLive /\ ~isFull /\ stream = "flowing" /\ MoreRows
  /\ rows' = Append(rows, row)
  /\ IF stats.validRows >= sampleSize
     THEN \* stream.pause(); stream.destroy(); return
          /\ stream' = "destroyed"
          /\ UNCHANGED <<stats, seenIds, batch, inserts>>
     ELSE LET r == onDataRow(ThisRun, row)
          IN  /\ stats' = r.stats
              /\ seenIds' = r.seenIds
              /\ IF r.stats.validRows > stats.validRows /\ batchIsFull(r.batch, batchSize)
                 THEN /\ stream' = "paused"
                      /\ batch' = <<>>
                      /\ inserts' = Append(inserts, NewInsert(r.batch, "threshold"))
                 ELSE /\ batch' = r.batch
                      /\ UNCHANGED <<stream, inserts>>
  /\ UNCHANGED <<aside, args, deleted, prepFailed, pc, exitCode, reported,
                 srcFailed, result>>

\* stream.resume(): a paused stream flows again; nothing on a destroyed one
resume(st) == IF st = "paused" THEN "flowing" ELSE st

\* the awaited threshold insert succeeds
SampleInsertThen(i) ==
  /\ RunLive /\ ~isFull
  /\ inserts[i].kind = "threshold" /\ inserts[i].status = "inflight"
  /\ stats' = thenInserted(stats, inserts[i].batch)
  /\ inserts' = [inserts EXCEPT ![i].status = "ok"]
  /\ stream' = resume(stream)
  /\ UNCHANGED <<aside, args, deleted, prepFailed, pc, exitCode, reported,
                 srcFailed, rows, batch, seenIds, result>>

\* the awaited threshold insert throws
SampleInsertCatch(i) ==
  /\ RunLive /\ ~isFull
  /\ inserts[i].kind = "threshold" /\ inserts[i].status = "inflight"
  /\ stats' = catchInsertError(stats, inserts[i].batch)
  /\ inserts' = [inserts EXCEPT ![i].status = "failed"]
  /\ stream' = resume(stream)
  /\ UNCHANGED <<aside, args, deleted, prepFailed, pc, exitCode, reported,
                 srcFailed, rows, batch, seenIds, result>>

(***************************************************************************)
(* The 'end' and 'error' handlers, the same in both functions.             *)
(***************************************************************************)
\* .on('end', async () => ...) up to its await; the source is exhausted and
\* the stream flows (a paused stream emits no 'end')
OnEnd ==
  /\ RunLive /\ stream = "flowing"
  /\ stream' = "ended"
  /\ IF Len(batch) > 0
     THEN /\ inserts' = Append(inserts, NewInsert(batch, "final"))
          /\ UNCHANGED result
     ELSE /\ result' = Resolved(stats)
          /\ UNCHANGED inserts
  /\ UNCHANGED <<aside, args, deleted, prepFailed, pc, exitCode, reported,
                 srcFailed, rows, stats, batch, seenIds>>

\* the awaited final insert succeeds: count it and resolve(stats)
FinalInsertThen(i) ==
  /\ RunLive
  /\ inserts[i].kind = "final" /\ inserts[i].status = "inflight"
  /\ stats' = thenInserted(stats, batch)
  /\ inserts' = [inserts EXCEPT ![i].status = "ok"]
  /\ result' = Resolved(stats')
  /\ UNCHANGED <<aside, args, deleted, prepFailed, pc, exitCode, reported,
                 stream, srcFailed, rows, batch, seenIds>>

\* the awaited final insert throws: log it and resolve(stats)
FinalInsertCatch(i) ==
  /\ RunLive
  /\ inserts[i].kind = "final" /\ inserts[i].status = "inflight"
  /\ stats' = catchInsertError(stats, batch)
  /\ inserts' = [inserts EXCEPT ![i].status = "failed"]
  /\ result' = Resolved(stats')
  /\ UNCHANGED <<aside, args, deleted, prepFailed, pc, exitCode, reported,
                 stream, srcFailed, rows, batch, seenIds>>

\* the csv parser stream emits 'error': .on('error', reject)
OnParserError ==
  /\ RunLive /\ stream \in {"flowing", "paused"}
  /\ stream' = "errored"
  /\ srcFailed' = "parser"
  /\ result' = Rejected
  /\ UNCHANGED <<aside, args, deleted, prepFailed, pc, exitCode, reported,
                 rows, stats, batch, seenIds, inserts>>

\* the file stream of fs.createReadStream emits 'error': pipe() does not pass
\* it on and no listener is attached to it, so it is thrown and ends the process
OnFileError ==
  /\ RunLive /\ stream \in {"flowing", "paused"}
  /\ stream' = "errored"
  /\ srcFailed' = "file"
  /\ pc' = "exited"
  /\ exitCode' = 1
  /\ UNCHANGED <<aside, args, deleted, prepFailed, reported,
                 rows, stats, batch, seenIds, inserts, result>>

(***************************************************************************)
(* The scripts: main of process-data, and clearAndReload.                  *)
(***************************************************************************)
\* exitCodeFor with the catch exiting with 0 as well
exitCodeAlwaysZero(res) == 0

\* process.exit(0) after a run that returned, process.exit(1) in the catch
exitCodeFor(res) == IF res.kind = "resolved" THEN 0 ELSE 1

\* main() up to its await: processCSVFile or processSampleData creates the stream
MainStart ==
  /\ entry = "main" /\ pc = "start"
  /\ pc' = "running"
  /\ stream' = "flowing"
  /\ UNCHANGED <<aside, args, deleted, prepFailed, exitCode, reported,
                 srcFailed, rows, stats, batch, seenIds, inserts, result>>

\* main() after its await: print the stats and exit, or the catch
MainFinish ==
  /\ entry = "main" /\ pc = "running" /\ result.kind # "pending"
  /\ pc' = "exited"
  /\ exitCode' = exitCodeFor(result)
  /\ reported' = result.stats
  /\ UNCHANGED <<aside, args, deleted, prepFailed, stream,
                 srcFailed, rows, stats, batch, seenIds, inserts, result>>

\* clearAndReload() up to await db.delete(trips)
ReloadStart ==
  /\ entry = "clearAndReload" /\ pc = "start"
  /\ pc' = "deleting"
  /\ UNCHANGED <<aside, args, deleted, prepFailed, exitCode, reported, stream,
                 srcFailed, rows, stats, batch, seenIds, inserts, result>>

\* afterAwait with the error of the awaited operation swallowed
afterAwaitSwallows(ok, next) == next

\* where clearAndReload goes when an awaited sink operation settles
afterAwait(ok, next) == IF ok THEN next ELSE "exited"

\* db.delete(trips) settles; on success the count query is awaited next
DeleteSettles(ok) ==
  /\ entry = "clearAndReload" /\ pc = "deleting"
  /\ pc' = afterAwait(ok, "counting")
  /\ deleted' = ok
  /\ prepFailed' = IF ok THEN prepFailed ELSE "delete"
  /\ exitCode' = IF pc' = "exited" THEN 1 ELSE exitCode
  /\ UNCHANGED <<aside, args, reported, stream,
                 srcFailed, rows, stats, batch, seenIds, inserts, result>>

\* the count query settles; on success processCSVFile creates the stream
CountSettles(ok) ==
  /\ entry = "clearAndReload" /\ pc = "counting"
  /\ pc' = afterAwait(ok, "running")
  /\ prepFailed' = IF ok THEN prepFailed ELSE "count"
  /\ exitCode' = IF pc' = "exited" THEN 1 ELSE exitCode
  /\ stream' = IF pc' = "running" THEN "flowing" ELSE stream
  /\ UNCHANGED <<aside, args, deleted, reported,
                 srcFailed, rows, stats, batch, seenIds, inserts, result>>

\* clearAndReload() after await processCSVFile: the summary and exit, or the catch
ReloadFinish ==
  /\ entry = "clearAndReload" /\ pc = "running" /\ result.kind # "pending"
  /\ pc' = "exited"
  /\ exitCode' = exitCodeFor(result)
  /\ reported' = result.stats
  /\ UNCHANGED <<aside, args, deleted, prepFailed, stream,
                 srcFailed, rows, stats, batch, seenIds, inserts, result>>

Next ==
  \/ MainStart
  \/ MainFinish
  \/ ReloadStart
  \/ \E ok \in BOOLEAN : DeleteSettles(ok)
  \/ \E ok \in BOOLEAN : CountSettles(ok)
  \/ ReloadFinish
  \/ \E row \in Rows : FullOnData(row)
  \/ \E i \in 1..Len(inserts) : FullInsertThen(i)
  \/ \E i \in 1..Len(inserts) : FullInsertCatch(i)
  \/ \E row \in Rows : SampleOnData(row)
  \/ \E i \in 1..Len(inserts) : SampleInsertThen(i)
  \/ \E i \in 1..Len(inserts) : SampleInsertCatch(i)
  \/ OnEnd
  \/ \E i \in 1..Len(inserts) : FinalInsertThen(i)
  \/ \E i \in 1..Len(inserts) : FinalInsertCatch(i)
  \/ OnParserError
  \/ OnFileError

Spec == Init /\ [][Next]_vars

\* every event that can happen does happen: the sink settles every insert, the
\* stream delivers its rows and its end, and the script resumes after its await
FairSpec == Spec /\ WF_vars(Next)

(***************************************************************************)
(* The functions applied on their own: processRow to one raw row, the      *)
(* 'data' handler's row step to one raw row in several run states,         *)
(* calculateSpeed and calculateHaversineDistance to their arguments.       *)
(***************************************************************************)
\* passenger_count: counts, a negative count, a fraction, no number
PassengerTexts ==
  {<<"1">>,
   <<"0">>,
   <<"-", "1">>,
   <<"2", ".", "5">>,
   <<"x">>}

\* pickup_latitude: inside, on and just past the bounds of the box
PickupLatTexts ==
  {<<"4", "0", ".", "7", "1", "2", "8">>,
   <<"4", "0", ".", "4">>,
   <<"4", "0", ".", "3", "9", "9", "9">>,
   <<"4", "1", ".", "0">>,
   <<"4", "1", ".", "0", "0", "0", "1">>}

\* pickup_longitude: inside, on and just past the western bound
PickupLonTexts ==
  {<<"-", "7", "4", ".", "0", "0", "6", "0">>,
   <<"-", "7", "4", ".", "3">>,
   <<"-", "7", "4", ".", "3", "0", "0", "1">>}

\* trip_duration: inside, on and just past the bounds, and 0
DurationTexts ==
  {<<"6", "0", "0">>,
   <<"5", "9">>,
   <<"6", "0">>,
   <<"1", "8", "0", "0", "0">>,
   <<"1", "8", "0", "0", "1">>,
   <<"0">>}

\* pickup_datetime: a Monday, a Saturday at midnight, a Sunday at 23:59:59, a
\* leap day, a day past its month's end, and no date
PickupTimeTexts ==
  {<<"2", "0", "1", "6", "-", "0", "3", "-", "1", "4", " ", "1", "7", ":", "2", "4", ":", "5", "5">>,
   <<"2", "0", "1", "6", "-", "0", "3", "-", "1", "2", " ", "0", "0", ":", "0", "0", ":", "0", "0">>,
   <<"2", "0", "1", "6", "-", "0", "3", "-", "1", "3", " ", "2", "3", ":", "5", "9", ":", "5", "9">>,
   <<"2", "0", "1", "6", "-", "0", "2", "-", "2", "9", " ", "1", "2", ":", "0", "0", ":", "0", "0">>,
   <<"2", "0", "1", "6", "-", "0", "2", "-", "3", "1", " ", "0", "8", ":", "0", "0", ":", "0", "0">>,
   <<"2", "0", "1", "6", "-", "1", "3", "-", "0", "1", " ", "0", "0", ":", "0", "0", ":", "0", "0">>}

\* dropoff points: the base one, the base pickup point, the north-east corner
\* of the box, and a point east of the box
DropoffTexts ==
  {<<<<"4", "0", ".", "7", "3", "0", "6">>, <<"-", "7", "3", ".", "9", "3", "5", "2">>>>,
   <<<<"4", "0", ".", "7", "1", "2", "8">>, <<"-", "7", "4", ".", "0", "0", "6", "0">>>>,
   <<<<"4", "1", ".", "0">>, <<"-", "7", "3", ".", "7">>>>,
   <<<<"4", "0", ".", "7", "3", "0", "6">>, <<"-", "7", "3", ".", "6", "9", "9", "9">>>>}

\* the raw rows processRow is applied to
RawRows ==
  {[BaseRow EXCEPT !.passenger_count = pc0, !.pickup_latitude = lat, !.pickup_longitude = lon,
                   !.dropoff_latitude = dr[1], !.dropoff_longitude = dr[2],
                   !.trip_duration = du, !.pickup_datetime = ti] :
     pc0 \in PassengerTexts, lat \in PickupLatTexts, lon \in PickupLonTexts,
     dr \in DropoffTexts, du \in DurationTexts, ti \in PickupTimeTexts}

\* how often the 'data' handler's row step is applied to one raw row
MaxRepeat == 2

\* the locals of a run that has read nothing
FreshRun == [stats |-> ZeroStats, seenIds |-> {}, batch |-> <<>>]

\* the run states a row may arrive in: a fresh run, and a run that has handled
\* one row of Rows (counted, seen, or kept in the batch)
RunStates == {FreshRun} \cup {onDataRow(FreshRun, r) : r \in Rows}

\* arguments of calculateSpeed: distances in metres, durations in seconds
SpeedDistances == {0, 1, 99, 100, 6269, 100000}

SpeedDurations == {-600, 0, 1, 59, 60, 600, 3600, 18000}

\* arguments of calculateHaversineDistance: points of the box, in 1e-4 degree
BoxLats == {404000, 407128, 407306, 410000}

BoxLons == {-743000, -740060, -739352, -737000}

Points == [lat : BoxLats, lon : BoxLons]

(***************************************************************************)
(* manualQuickSort and sortTrips.  A call either returns an array or ends  *)
(* in the engine's RangeError when the recursion outgrows the call stack.  *)
(***************************************************************************)
\* the longest array that is sorted
MaxSortLen == 3

\* the frames the call stack holds; a recursion in which every call works on
\* a shorter array than its caller needs no more than the array's length
StackLimit == MaxSortLen + 1

Returns(value) == [threw |-> FALSE, value |-> value]

\* RangeError: Maximum call stack size exceeded
RangeError == [threw |-> TRUE, value |-> <<>>]

\* Math.floor(arr.length / 2), as an index from 1
pivotIndex(arr) == (Len(arr) \div 2) + 1

\* the elements pushed to less, equal and greater, in the array's order
less(arr, pivot, compareFn) == SelectSeq(arr, LAMBDA x : compareFn[<<x, pivot>>] < 0)

greater(arr, pivot, compareFn) == SelectSeq(arr, LAMBDA x : compareFn[<<x, pivot>>] > 0)

equal(arr, pivot, compareFn) == SelectSeq(arr, LAMBDA x : compareFn[<<x, pivot>>] = 0)

\* combine with the sorted greater part put first
combineGreaterFirst(sortedLess, eq, sortedGreater) ==
  IF sortedLess.threw \/ sortedGreater.threw THEN RangeError
  ELSE Returns(sortedGreater.value \o eq \o sortedLess.value)

\* the two recursive calls have come back, or one of them threw: the result
\* is sortedLess, equal and sortedGreater copied one after the other
combine(sortedLess, eq, sortedGreater) ==
  IF sortedLess.threw \/ sortedGreater.threw THEN RangeError
  ELSE Returns(sortedLess.value \o eq \o sortedGreater.value)

\* manualQuickSort called at depth frames of the call stack
RECURSIVE manualQuickSortAt(_, _, _)
manualQuickSortAt(arr, compareFn, depth) ==
  IF depth > StackLimit THEN RangeError
  ELSE IF Len(arr) <= 1 THEN Returns(arr)
  ELSE combine(manualQuickSortAt(less(arr, arr[pivotIndex(arr)], compareFn), compareFn, depth + 1),
               equal(arr, arr[pivotIndex(arr)], compareFn),
               manualQuickSortAt(greater(arr, arr[pivotIndex(arr)], compareFn), compareFn, depth + 1))

manualQuickSort(arr, compareFn) == manualQuickSortAt(arr, compareFn, 1)

\* the values of a Trip's fields: null, a number, a Date (its getTime()), a
\* string (its UTF-16 code units)
JsNull == [type |-> "null", v |-> <<>>]

JsNumber(n) == [type |-> "number", v |-> <<n>>]

JsDate(t) == [type |-> "date", v |-> <<t>>]

JsString(codes) == [type |-> "string", v |-> codes]

\* aStr < bStr: the first code unit that differs decides, a prefix comes first
RECURSIVE StrLess(_, _)
StrLess(a, b) ==
  IF b = <<>> THEN FALSE
  ELSE IF a = <<>> THEN TRUE
  ELSE IF Head(a) # Head(b) THEN Head(a) < Head(b)
  ELSE StrLess(Tail(a), Tail(b))

\* the compareFn of sortTrips applied to two field values
compareValues(aVal, bVal, order) ==
  IF aVal.type = "null" THEN 1
  ELSE IF bVal.type = "null" THEN -1
  ELSE IF aVal.type = "number" /\ bVal.type = "number"
  THEN (IF order = "asc" THEN aVal.v[1] - bVal.v[1] ELSE bVal.v[1] - aVal.v[1])
  ELSE IF aVal.type = "date" /\ bVal.type = "date"
  THEN (IF order = "asc" THEN aVal.v[1] - bVal.v[1] ELSE -(aVal.v[1] - bVal.v[1]))
  ELSE IF StrLess(aVal.v, bVal.v) THEN (IF order = "asc" THEN -1 ELSE 1)
  ELSE IF StrLess(bVal.v, aVal.v) THEN (IF order = "asc" THEN 1 ELSE -1)
  ELSE 0

\* the trips that are sorted: the identifiers "a", "ab", "b", "c", pickup times
\* in seconds, durations in seconds, distances in metres or null
TripPool ==
  {[id |-> JsString(<<97>>), pickupDatetime |-> JsDate(200), tripDuration |-> JsNumber(600),
    tripDistance |-> JsNumber(2000)],
   [id |-> JsString(<<97, 98>>), pickupDatetime |-> JsDate(100), tripDuration |-> JsNumber(900),
    tripDistance |-> JsNumber(1000)],
   [id |-> JsString(<<98>>), pickupDatetime |-> JsDate(300), tripDuration |-> JsNumber(60),
    tripDistance |-> JsNull],
   [id |-> JsString(<<99>>), pickupDatetime |-> JsDate(200), tripDuration |-> JsNumber(600),
    tripDistance |-> JsNull]}

SortFields == {"id", "pickupDatetime", "tripDuration", "tripDistance"}

SortOrders == {"asc", "desc"}

\* sortTrips' compareFn for a field and an order
tripCompareFn(field, order) ==
  [p \in TripPool \X TripPool |-> compareValues(p[1][field], p[2][field], order)]

sortTrips(trips, field, order) == manualQuickSort(trips, tripCompareFn(field, order))

\* the arrays of at most MaxSortLen elements of a set
ArraysOf(S) == UNION {[1..n -> S] : n \in 0..MaxSortLen}

\* the elements manualQuickSort is applied to on its own
Elems == {1, 2, 3}

\* compareFn is a consistent total preorder: compare(x, x) = 0, antisymmetric
\* in sign, transitive
Consistent(compareFn) ==
  /\ \A x \in Elems : compareFn[<<x, x>>] = 0
  /\ \A x, y \in Elems : compareFn[<<x, y>>] < 0 <=> compareFn[<<y, x>>] > 0
  /\ \A x, y, z \in Elems :
       (compareFn[<<x, y>>] <= 0 /\ compareFn[<<y, z>>] <= 0) => compareFn[<<x, z>>] <= 0

\* the comparators manualQuickSort is given: every consistent total preorder
\* of the elements, and the comparator that calls every element the greater
CompareFns ==
  {f \in [Elems \X Elems -> {-1, 0, 1}] : Consistent(f)}
  \cup {[p \in Elems \X Elems |-> 1]}

\* no script is running
ScriptIdle ==
  /\ entry = "none"
  /\ isFull = FALSE
  /\ batchSize = 0
  /\ sampleSize = 0
  /\ deleted = FALSE
  /\ prepFailed = "no"
  /\ pc = "start"
  /\ exitCode = NoExit
  /\ reported = NoStats
  /\ stream = "none"
  /\ srcFailed = "no"
  /\ rows = <<>>
  /\ stats = ZeroStats
  /\ batch = <<>>
  /\ seenIds = {}
  /\ inserts = <<>>
  /\ result = PendingResult

CallInit ==
  /\ ScriptIdle
  /\ runs = NoRuns
  /\ request = NoRequest
  /\ response = NoResponse
  /\ returned = <<>>
  /\ \/ \E r \in RawRows : call = [fn |-> "processRow", row |-> r]
     \/ \E r \in Rows : call = [fn |-> "onDataRow", row |-> r]
     \/ \E d \in SpeedDistances, t \in SpeedDurations :
          call = [fn |-> "calculateSpeed", distanceM |-> d, durationSeconds |-> t]
     \/ \E a, b \in Points :
          call = [fn |-> "calculateHaversineDistance", a |-> a, b |-> b]
     \/ \E trips \in ArraysOf(TripPool), field \in SortFields, order \in SortOrders :
          call = [fn |-> "sortTrips", trips |-> trips, field |-> field, order |-> order]
     \/ \E arr \in ArraysOf(Elems), compareFn \in CompareFns :
          call = [fn |-> "manualQuickSort", arr |-> arr, compareFn |-> compareFn]

\* processRow(row)
CallProcessRow ==
  /\ call.fn = "processRow" /\ returned = <<>>
  /\ returned' = <<processRow(call.row)>>
  /\ UNCHANGED <<scriptVars, call, runs, request, response>>

\* the 'data' handler's row step on the row, in the run state run
CallOnDataRow(run) ==
  /\ call.fn = "onDataRow" /\ Len(returned) < MaxRepeat
  /\ returned' = Append(returned, [before |-> run, after |-> onDataRow(run, call.row)])
  /\ UNCHANGED <<scriptVars, call, runs, request, response>>

\* calculateSpeed(distanceKm, durationSeconds)
CallCalculateSpeed ==
  /\ call.fn = "calculateSpeed" /\ returned = <<>>
  /\ returned' = <<calculateSpeed(call.distanceM, call.durationSeconds)>>
  /\ UNCHANGED <<scriptVars, call, runs, request, response>>

\* calculateHaversineDistance(lat1, lon1, lat2, lon2)
CallCalculateHaversineDistance ==
  /\ call.fn = "calculateHaversineDistance" /\ returned = <<>>
  /\ returned' = <<calculateHaversineDistance(call.a.lat, call.a.lon, call.b.lat, call.b.lon)>>
  /\ UNCHANGED <<scriptVars, call, runs, request, response>>

\* sortTrips(trips, field, order): what it returned, and the array it was
\* given as it was before the call (the sort writes to arrays of its own only)
CallSortTrips ==
  /\ call.fn = "sortTrips" /\ returned = <<>>
  /\ returned' = <<[given |-> call.trips, out |-> sortTrips(call.trips, call.field, call.order)]>>
  /\ UNCHANGED <<scriptVars, call, runs, request, response>>

\* manualQuickSort(arr, compareFn)
CallManualQuickSort ==
  /\ call.fn = "manualQuickSort" /\ returned = <<>>
  /\ returned' = <<[given |-> call.arr, out |-> manualQuickSort(call.arr, call.compareFn)]>>
  /\ UNCHANGED <<scriptVars, call, runs, request, response>>

CallNext ==
  \/ CallProcessRow
  \/ \E run \in RunStates : CallOnDataRow(run)
  \/ CallCalculateSpeed
  \/ CallCalculateHaversineDistance
  \/ CallSortTrips
  \/ CallManualQuickSort

CallSpec == CallInit /\ [][CallNext]_vars

(***************************************************************************)
(* Two runs in one process (processSampleData and processCSVFile called    *)
(* without awaiting the first): each call has its own stats, batch and     *)
(* seenIds, and the events of the two streams interleave.                  *)
(***************************************************************************)
\* rows each of the two sources delivers, at most
MaxPairRows == 2

\* the rows of the two sources: the identifiers "a" and "b", and a malformed "a"
PairRows == {RowA, RowB, RowMalformedA}

\* the arguments of the two calls: a sample and a full run, two full runs,
\* two samples
PairArgs ==
  {<<[isFull |-> FALSE, sampleSize |-> 1, batchSize |-> 1],
     [isFull |-> TRUE, sampleSize |-> 0, batchSize |-> 2]>>,
   <<[isFull |-> TRUE, sampleSize |-> 0, batchSize |-> 1],
     [isFull |-> TRUE, sampleSize |-> 0, batchSize |-> 1]>>,
   <<[isFull |-> FALSE, sampleSize |-> 2, batchSize |-> 2],
     [isFull |-> FALSE, sampleSize |-> 1, batchSize |-> 2]>>}

\* a call of processCSVFile or processSampleData up to the creation of its
\* stream; the promise is "pending", "resolved" (with stats) or "rejected"
NewRun(a) ==
  [isFull |-> a.isFull, batchSize |-> a.batchSize, sampleSize |-> a.sampleSize,
   stream |-> "flowing", rows |-> <<>>, stats |-> ZeroStats, seenIds |-> {},
   batch |-> <<>>, inserts |-> <<>>, result |-> "pending"]

PairInit ==
  /\ ScriptIdle
  /\ call = NoCall
  /\ returned = <<>>
  /\ request = NoRequest
  /\ response = NoResponse
  /\ \E a \in PairArgs : runs = [k \in 1..2 |-> NewRun(a[k])]

\* localsOf with one seen-set shared by the two runs (a module-level set)
localsSharedSeen(rs, k) ==
  [stats |-> rs[k].stats, seenIds |-> rs[1].seenIds \cup rs[2].seenIds, batch |-> rs[k].batch]

\* the stats, seenIds and batch that the handlers of run k close over
localsOf(rs, k) ==
  [stats |-> rs[k].stats, seenIds |-> rs[k].seenIds, batch |-> rs[k].batch]

\* the rest of the 'data' handler after the row step: keep the row, or hand
\* a full batch to the sink (and pause the stream of a sampled run)
flushIn(r, loc, after) ==
  IF after.stats.validRows > loc.stats.validRows /\ batchIsFull(after.batch, r.batchSize)
  THEN [r EXCEPT !.stats = after.stats, !.seenIds = after.seenIds, !.batch = <<>>,
                 !.inserts = Append(@, NewInsert(after.batch, "threshold")),
                 !.stream = IF r.isFull THEN @ ELSE "paused"]
  ELSE [r EXCEPT !.stats = after.stats, !.seenIds = after.seenIds, !.batch = after.batch]

\* the 'data' handler of the run r, whose locals are loc
dataIn(r, loc, row) ==
  IF ~r.isFull /\ loc.stats.validRows >= r.sampleSize
  THEN [r EXCEPT !.rows = Append(@, row), !.stream = "destroyed"]
  ELSE flushIn([r EXCEPT !.rows = Append(@, row)], loc, onDataRow(loc, row))

\* insert i of the run r settles: counted or logged, the stream of a sampled
\* run resumed, and the promise resolved after the final insert
settleIn(r, i, ok) ==
  [r EXCEPT !.stats = IF ok THEN thenInserted(@, r.inserts[i].batch)
                      ELSE catchInsertError(@, r.inserts[i].batch),
            !.inserts[i].status = IF ok THEN "ok" ELSE "failed",
            !.stream = IF r.isFull \/ r.inserts[i].kind = "final" THEN @ ELSE resume(@),
            !.result = IF r.inserts[i].kind = "final" THEN "resolved" ELSE @]

\* the 'end' handler of the run r up to its await
endIn(r) ==
  IF Len(r.batch) > 0
  THEN [r EXCEPT !.stream = "ended", !.inserts = Append(@, NewInsert(r.batch, "final"))]
  ELSE [r EXCEPT !.stream = "ended", !.result = "resolved"]

PairOnData(k, row) ==
  /\ runs[k].stream = "flowing" /\ Len(runs[k].rows) < MaxPairRows
  /\ runs' = [runs EXCEPT ![k] = dataIn(runs[k], localsOf(runs, k), row)]
  /\ UNCHANGED <<scriptVars, call, returned, request, response>>

PairInsertSettles(k, i, ok) ==
  /\ runs[k].inserts[i].status = "inflight"
  /\ runs' = [runs EXCEPT ![k] = settleIn(runs[k], i, ok)]
  /\ UNCHANGED <<scriptVars, call, returned, request, response>>

PairOnEnd(k) ==
  /\ runs[k].stream = "flowing"
  /\ runs' = [runs EXCEPT ![k] = endIn(runs[k])]
  /\ UNCHANGED <<scriptVars, call, returned, request, response>>

PairNext ==
  \/ \E k \in 1..2, row \in PairRows : PairOnData(k, row)
  \/ \E k \in 1..2 : \E i \in 1..Len(runs[k].inserts), ok \in BOOLEAN : PairInsertSettles(k, i, ok)
  \/ \E k \in 1..2 : PairOnEnd(k)

PairSpec == PairInit /\ [][PairNext]_vars

(***************************************************************************)
(* The server's GET /api/trips and GET /api/export handlers, and the       *)
(* tripFilterSchema both validate their filter with.  The store answers    *)
(* every query; the requests tried carry the parameters below and no       *)
(* other.                                                                  *)
(***************************************************************************)
\* trips of the store that match a filter, at most
MaxTrips == 2

\* a query parameter that the request does not carry (req.query.x undefined)
Absent == [present |-> FALSE, text |-> <<>>]

Param(text) == [present |-> TRUE, text |-> text]

\* undefined, as a field of filterParams
Undefined == [undefined |-> TRUE]

\* req.query.x ? parseFloat(req.query.x) : undefined
optFloat(q) == IF q.present /\ q.text # <<>> THEN parseFloat(q.text) ELSE Undefined

\* req.query.x ? parseInt(req.query.x) : undefined, or the handler's default
optInt(q, default) == IF q.present /\ q.text # <<>> THEN parseInt(q.text) ELSE default

\* z.number().optional(): undefined or a number, and NaN is no number
zNumberOptional(x) == x = Undefined \/ ~isNaN(x)

\* z.number().min(lo).max(hi).default(d): undefined takes the default
zNumberBetween(x, lo, hi) == x = Undefined \/ (~isNaN(x) /\ x.v >= lo /\ x.v <= hi)

\* z.number().min(lo).default(d)
zNumberAtLeast(x, lo) == x = Undefined \/ (~isNaN(x) /\ x.v >= lo)

\* tripFilterSchema.parse(filterParams) does not throw a ZodError
tripFilterSchemaParses(f) ==
  /\ zNumberOptional(f.minDistance)
  /\ zNumberOptional(f.maxDistance)
  /\ zNumberOptional(f.minDuration)
  /\ zNumberOptional(f.maxDuration)
  /\ zNumberBetween(f.limit, 1, 1000)
  /\ zNumberAtLeast(f.offset, 0)

\* filterParams of GET /api/trips
tripsFilterParams(q) ==
  [minDistance |-> optFloat(q.minDistance), maxDistance |-> optFloat(q.maxDistance),
   minDuration |-> optInt(q.minDuration, Undefined), maxDuration |-> optInt(q.maxDuration, Undefined),
   limit |-> optInt(q.limit, Num(100)), offset |-> optInt(q.offset, Num(0))]

\* filterParams of GET /api/export: limit: 10000, offset: 0
exportFilterParams(q) ==
  [minDistance |-> optFloat(q.minDistance), maxDistance |-> optFloat(q.maxDistance),
   minDuration |-> optInt(q.minDuration, Undefined), maxDuration |-> optInt(q.maxDuration, Undefined),
   limit |-> Num(10000), offset |-> Num(0)]

\* the texts a numeric query parameter takes: absent, a number, no number
NumberParams == {Absent, Param(<<"1", ".", "5">>), Param(<<"a", "b", "c">>)}

\* the texts of limit: absent, inside, on and past the schema's bounds
LimitParams ==
  {Absent, Param(<<"5", "0">>), Param(<<"1", "0", "0", "0">>), Param(<<"1", "0", "0", "1">>),
   Param(<<"0">>)}

Queries ==
  [minDistance : NumberParams, maxDistance : {Absent, Param(<<"9">>)},
   minDuration : NumberParams, maxDuration : {Absent},
   limit : LimitParams, offset : {Absent}]

\* the export reads no limit and no offset from the query
ExportQueries == {q \in Queries : q.limit = Absent}

ApiInit ==
  /\ ScriptIdle
  /\ call = NoCall
  /\ returned = <<>>
  /\ runs = NoRuns
  /\ response = NoResponse
  /\ \/ \E q \in Queries : request = [path |-> "/api/trips", query |-> q]
     \/ \E q \in ExportQueries : request = [path |-> "/api/export", query |-> q]

\* the trips storage.getTrips returns of `matching` matching ones
pageSize(matching, f) == IF matching < f.limit.v THEN matching ELSE f.limit.v

\* app.get("/api/trips"): res.json(result), or 400 for a ZodError
GetTrips(matching) ==
  /\ request.path = "/api/trips" /\ response = NoResponse
  /\ response' =
       IF tripFilterSchemaParses(tripsFilterParams(request.query))
       THEN [status |-> 200, type |-> "application/json",
             rows |-> pageSize(matching, tripsFilterParams(request.query))]
       ELSE [status |-> 400, type |-> "application/json", rows |-> 0]
  /\ UNCHANGED <<scriptVars, call, returned, runs, request>>

\* app.get("/api/export"): the CSV (a header line and a line per trip), or
\* 500 from the catch, which takes the ZodError too
GetExport(matching) ==
  /\ request.path = "/api/export" /\ response = NoResponse
  /\ response' =
       IF tripFilterSchemaParses(exportFilterParams(request.query))
       THEN [status |-> 200, type |-> "text/csv",
             rows |-> pageSize(matching, exportFilterParams(request.query))]
       ELSE [status |-> 500, type |-> "application/json", rows |-> 0]
  /\ UNCHANGED <<scriptVars, call, returned, runs, request>>

ApiNext ==
  \/ \E matching \in 0..MaxTrips : GetTrips(matching)
  \/ \E matching \in 0..MaxTrips : GetExport(matching)

ApiSpec == ApiInit /\ [][ApiNext]_vars

(***************************************************************************)
(* Views of the state that the properties speak of.                        *)
(***************************************************************************)
\* the rows the handler has counted (a sampled run drops the row on which it
\* destroys the stream before counting it)
CountedRows == SubSeq(rows, 1, stats.totalRows)

RECURSIVE ConcatBatches(_)
ConcatBatches(ins) ==
  IF ins = <<>> THEN <<>> ELSE Head(ins).batch \o ConcatBatches(Tail(ins))

RECURSIVE SelectKind(_, _)
SelectKind(ins, kind) ==
  IF ins = <<>> THEN <<>>
  ELSE IF Head(ins).kind = kind THEN <<Head(ins)>> \o SelectKind(Tail(ins), kind)
  ELSE SelectKind(Tail(ins), kind)

RECURSIVE SizeWithStatus(_, _)
SizeWithStatus(ins, status) ==
  IF ins = <<>> THEN 0
  ELSE (IF Head(ins).status = status THEN Len(Head(ins).batch) ELSE 0)
       + SizeWithStatus(Tail(ins), status)

\* every record accepted so far, in order: the threshold batches, then the
\* batch in memory (the 'end' handler hands the batch over without clearing it)
AcceptedRecords == ConcatBatches(SelectKind(inserts, "threshold")) \o batch

\* every record handed to the sink's bulk insert, in order
HandedRecords == ConcatBatches(inserts)

\* processRow of every row a source may deliver, computed once
ProcessedRows == [row \in Rows |-> processRow(row)]

\* processRow accepts the row
Accepts(row) == ProcessedRows[row] # Null

\* row i of sq passes validation and no earlier row with its raw identifier does
FirstValid(sq, i) ==
  /\ Accepts(sq[i])
  /\ \A j \in 1..(i - 1) : sq[j].id = sq[i].id => ~Accepts(sq[j])

\* row i of sq comes after an accepted row with its raw identifier
AfterAccepted(sq, i) == \E j \in 1..(i - 1) : sq[j].id = sq[i].id /\ FirstValid(sq, j)

\* the clean records of the rows of sq[1..n] that are FirstValid, in order
RECURSIVE FirstValidRecords(_, _)
FirstValidRecords(sq, n) ==
  IF n = 0 THEN <<>>
  ELSE FirstValidRecords(sq, n - 1)
       \o (IF FirstValid(sq, n) THEN <<ProcessedRows[sq[n]]>> ELSE <<>>)

NoInsertInFlight == \A i \in 1..Len(inserts) : inserts[i].status # "inflight"

(***************************************************************************)
(* C1.  In every run, full or sampled, after each row and at the run's end *)
(* totalRows = validRows + missingValues + duplicates: the counters        *)
(* partition the rows counted, and missingValues is the one counter that    *)
(* takes every rejection (invalidCoordinates and outliers stay 0).         *)
(***************************************************************************)
PartitionOf(st) ==
  /\ st.totalRows = st.validRows + st.missingValues + st.duplicates
  /\ st.invalidCoordinates = 0
  /\ st.outliers = 0

C1_CountersPartition ==
  /\ PartitionOf(stats)
  /\ stats.totalRows = Len(rows) - (IF stream = "destroyed" THEN 1 ELSE 0)
  /\ stats.missingValues =
       Cardinality({i \in 1..stats.totalRows :
                      ~Accepts(rows[i]) /\ ~AfterAccepted(rows, i)})
  /\ result.kind = "resolved" => PartitionOf(result.stats)

\* a run returned after a valid row, a duplicate and an out-of-bounds row
C1_Witness ==
  /\ result.kind = "resolved"
  /\ result.stats.validRows = 1
  /\ result.stats.duplicates = 1
  /\ result.stats.missingValues = 1
  /\ \E i \in 1..Len(rows) : rows[i] = RowOutOfBoundsB

(***************************************************************************)
(* C2.  Within one run, of the rows that carry one raw identifier at most  *)
(* one is accepted, the accepted one is the earliest that passes           *)
(* validation, and every later row with that identifier adds exactly one   *)
(* to duplicates and is never accepted.                                    *)
(***************************************************************************)
C2_FirstValidWins ==
  /\ AcceptedRecords = FirstValidRecords(CountedRows, stats.totalRows)
  /\ stats.validRows = Len(AcceptedRecords)
  /\ stats.duplicates =
       Cardinality({i \in 1..stats.totalRows : AfterAccepted(CountedRows, i)})

\* a malformed "a", then a valid "a", then a second valid "a"
C2_Witness ==
  /\ CountedRows = <<RowMalformedA, RowA, RowA>>
  /\ stats.validRows = 1
  /\ stats.duplicates = 1
  /\ stats.missingValues = 1

(***************************************************************************)
(* C3.  Every accepted record is handed to the sink's bulk insert in       *)
(* exactly one batch before the run ends, in a threshold flush or in the   *)
(* final flush.  The stream is over once it has emitted 'end' or has been  *)
(* destroyed; the sampled run that destroys its stream never flushes the   *)
(* batch it holds.                                                         *)
(***************************************************************************)
C3_AcceptedHandedOnce ==
  stream \in {"ended", "destroyed"} => HandedRecords = AcceptedRecords

(***************************************************************************)
(* C4.  When a run returns its stats, inserted = validRows minus the size  *)
(* of the batches whose insert failed.  processCSVFile does not await its  *)
(* threshold inserts, so it resolves while they are in flight.             *)
(***************************************************************************)
C4_ReturnedInsertedIsValidMinusFailed ==
  result.kind = "resolved" =>
    result.stats.inserted = result.stats.validRows - SizeWithStatus(inserts, "failed")

(***************************************************************************)
(* C5.  A sampled run with target T over a source with at least T          *)
(* acceptable rows, no insert failing, ends with inserted = T, whatever    *)
(* the batch size.                                                         *)
(***************************************************************************)
C5_SampleInsertsTarget ==
  ( /\ ~isFull
    /\ stream \in {"ended", "destroyed"}
    /\ NoInsertInFlight
    /\ SizeWithStatus(inserts, "failed") = 0
    /\ stats.validRows = sampleSize )
  => stats.inserted = sampleSize

(***************************************************************************)
(* C6.  Every sampled run returns its stats: while the script awaits the   *)
(* run and the source has not failed, either the promise has settled or    *)
(* some event of the run can still happen.                                 *)
(***************************************************************************)
C6_SampledRunReturns ==
  (~isFull /\ pc = "running" /\ srcFailed = "no")
  => (result.kind # "pending" \/ ENABLED Next)

(***************************************************************************)
(* C7.  A failed bulk insert, of a threshold batch or of the final batch,  *)
(* in either mode, does not abort the run: the promise is never rejected   *)
(* for it, the step in which an insert fails changes no counter and loses  *)
(* no row, a paused stream flows again, a failed final insert still        *)
(* resolves with the stats, and inserted is at all times the total size    *)
(* of the batches whose insert succeeded, earlier failures or not.         *)
(***************************************************************************)
InsertFails(i) == inserts[i].status = "inflight" /\ inserts'[i].status = "failed"

SinkFailureStep ==
  \A i \in 1..Len(inserts) :
    InsertFails(i) =>
      /\ stats' = stats
      /\ rows' = rows /\ batch' = batch /\ seenIds' = seenIds
      /\ pc' = pc /\ exitCode' = exitCode /\ srcFailed' = srcFailed
      /\ IF inserts[i].kind = "final"
         THEN result' = Resolved(stats) /\ stream' = stream
         ELSE /\ result' = result
              /\ stream' = IF stream = "paused" THEN "flowing" ELSE stream

C7_SinkFailureDoesNotAbort ==
  /\ [](result.kind = "rejected" => srcFailed = "parser")
  /\ [](stats.inserted = SizeWithStatus(inserts, "ok"))
  /\ [][SinkFailureStep]_vars

\* a run returned after a failed insert and a later insert that was counted
C7_Witness ==
  /\ result.kind = "resolved"
  /\ \E i, j \in 1..Len(inserts) :
       /\ i < j
       /\ inserts[i].status = "failed"
       /\ inserts[j].status = "ok"
       /\ result.stats.inserted = Len(inserts[j].batch)

(***************************************************************************)
(* C8.  When the source fails during a run, the run is aborted and the     *)
(* error reaches the caller together with the stats accumulated so far.    *)
(* The code rejects with the error alone (or, for an error of the file     *)
(* stream, rejects nothing at all).                                         *)
(***************************************************************************)
C8_SourceFailureSurfacesStats ==
  srcFailed # "no" => (result.kind = "rejected" /\ result.stats = stats)

(***************************************************************************)
(* C9.  In clearAndReload no row is read and no bulk insert is started     *)
(* before the deletion of the persisted trips has completed, and when the  *)
(* deletion fails no row is processed and nothing is inserted.             *)
(***************************************************************************)
C9_DeleteBeforeReload ==
  entry = "clearAndReload" =>
    /\ (stream # "none" \/ rows # <<>> \/ inserts # <<>>) => deleted
    /\ prepFailed = "delete" =>
         /\ ~deleted
         /\ stream = "none" /\ rows = <<>> /\ inserts = <<>> /\ stats = ZeroStats

\* a reload that has inserted a batch after the deletion
C9_Witness ==
  /\ entry = "clearAndReload"
  /\ deleted
  /\ \E i \in 1..Len(inserts) : inserts[i].status = "ok"

(***************************************************************************)
(* C10 as stated.  The scripts exit with a non-zero code if and only if    *)
(* the source could not be read.                                           *)
(***************************************************************************)
C10_NonZeroExitIffSourceFailed ==
  pc = "exited" => (exitCode # 0 <=> srcFailed # "no")

(***************************************************************************)
(* C10 as amended.  The scripts exit with a non-zero code if and only if   *)
(* the source could not be read or, in clearAndReload, the deletion or the *)
(* count query before the run failed; a run whose source is read to the    *)
(* end exits with code 0 after reporting the counters, failed inserts or   *)
(* not.                                                                    *)
(***************************************************************************)
C10_ExitCode ==
  pc = "exited" =>
    /\ exitCode \in {0, 1}
    /\ exitCode # 0 <=> (srcFailed # "no" \/ prepFailed # "no")
    /\ stream = "ended" =>
         (exitCode = 0 /\ result.kind = "resolved" /\ reported = result.stats)

\* a run with a failed insert whose script exited with 0
C10_Witness ==
  /\ pc = "exited"
  /\ exitCode = 0
  /\ reported # NoStats
  /\ \E i \in 1..Len(inserts) : inserts[i].status = "failed"

(***************************************************************************)
(* C11.  Across all batches handed to the sink in one run, no two records  *)
(* carry the same stored identifier.  The seen-set is tested and updated   *)
(* with the raw identifier while the stored identifier is the trimmed one, *)
(* so the rows "a" and "a " are both accepted and both stored as "a".      *)
(***************************************************************************)
C11_StoredIdentifiersDistinct ==
  \A i, j \in 1..Len(HandedRecords) :
    i # j => HandedRecords[i].id # HandedRecords[j].id

(***************************************************************************)
(* processRow applied to one raw row: what it returned.                    *)
(***************************************************************************)
\* processRow has returned
RowReturned == call.fn = "processRow" /\ returned # <<>>

\* processRow has returned a clean record
RowAccepted == RowReturned /\ returned[1] # Null

\* a point given in 1e-4 degree lies in the box, its bounds included
InBox(lat, lon) == lat \in 404000..410000 /\ lon \in -743000..-737000

\* duration in seconds, distance in metres and speed in metres per hour lie
\* in [60, 18000], [0.1 km, 100 km] and [1 km/h, 100 km/h]
Plausible(duration, distance, speed) ==
  /\ duration \in 60..18000
  /\ distance \in 100..100000
  /\ speed \in 1000..100000

\* the numbers of a raw row whose numeric fields all parse
ParsedRow(raw) ==
  [plat |-> parseFloat(raw.pickup_latitude).v, plon |-> parseFloat(raw.pickup_longitude).v,
   dlat |-> parseFloat(raw.dropoff_latitude).v, dlon |-> parseFloat(raw.dropoff_longitude).v,
   duration |-> parseInt(raw.trip_duration).v]

\* the distance and the speed derived from the numbers of a row
DerivedDistance(n) == calculateHaversineDistance(n.plat, n.plon, n.dlat, n.dlon)

\* a row's numbers violate the geofence or one of the plausibility ranges
ViolatesRanges(n) ==
  \/ ~InBox(n.plat, n.plon)
  \/ ~InBox(n.dlat, n.dlon)
  \/ ~Plausible(n.duration, DerivedDistance(n), calculateSpeed(DerivedDistance(n), n.duration))

(***************************************************************************)
(* C12.  Every record accepted by processRow has its pickup and its        *)
(* dropoff point inside the bounding box (latitude 40.4 to 41.0, longitude *)
(* -74.3 to -73.7, the bounds included), a duration in [60, 18000] s, a    *)
(* derived distance in [0.1, 100] km and a derived speed in [1, 100] km/h, *)
(* and a row whose numbers violate any of these is rejected.               *)
(***************************************************************************)
C12_AcceptedWithinRanges ==
  RowReturned =>
    /\ returned[1] # Null =>
         /\ InBox(returned[1].pickupLatitude, returned[1].pickupLongitude)
         /\ InBox(returned[1].dropoffLatitude, returned[1].dropoffLongitude)
         /\ Plausible(returned[1].tripDuration, returned[1].tripDistance, returned[1].tripSpeed)
         /\ returned[1].pickupLatitude = ParsedRow(call.row).plat
         /\ returned[1].pickupLongitude = ParsedRow(call.row).plon
         /\ returned[1].dropoffLatitude = ParsedRow(call.row).dlat
         /\ returned[1].dropoffLongitude = ParsedRow(call.row).dlon
         /\ returned[1].tripDuration = ParsedRow(call.row).duration
         /\ returned[1].tripDistance = DerivedDistance(ParsedRow(call.row))
    /\ ViolatesRanges(ParsedRow(call.row)) => returned[1] = Null

\* a record accepted with all four coordinates on the bounds of the box and
\* the duration on its upper bound
C12_Witness ==
  /\ RowAccepted
  /\ returned[1].pickupLatitude = 404000
  /\ returned[1].pickupLongitude = -743000
  /\ returned[1].dropoffLatitude = 410000
  /\ returned[1].dropoffLongitude = -737000
  /\ returned[1].tripDuration = 18000

(***************************************************************************)
(* C13.  Every clean record has a passenger count that is an integer       *)
(* greater than or equal to 0, for every passenger_count text that parses  *)
(* as a number.  processRow tests the parsed count for NaN only, so "-1"   *)
(* is accepted with the count -1.                                          *)
(***************************************************************************)
C13_PassengerCountNonNegative ==
  RowAccepted => returned[1].passengerCount >= 0

(***************************************************************************)
(* C14.  Every clean record has hourOfDay in 0..23 and dayOfWeek in 0..6,  *)
(* both those of the pickup timestamp (0 = Sunday), and its weekend flag   *)
(* is 1 exactly when dayOfWeek is 0 or 6 and 0 otherwise.                  *)
(***************************************************************************)
MonthOffsets == <<0, 3, 2, 5, 0, 3, 5, 1, 4, 6, 2, 4>>

\* the weekday of a civil date, 0 = Sunday, by the table of month offsets
WeekdayOf(y, m, d) ==
  ((IF m < 3 THEN y - 1 ELSE y) + (IF m < 3 THEN y - 1 ELSE y) \div 4
   - (IF m < 3 THEN y - 1 ELSE y) \div 100 + (IF m < 3 THEN y - 1 ELSE y) \div 400
   + MonthOffsets[m] + d) % 7

C14_TemporalFields ==
  RowAccepted =>
    /\ returned[1].hourOfDay \in 0..23
    /\ returned[1].hourOfDay = Field(call.row.pickup_datetime, 12, 13)
    /\ returned[1].dayOfWeek \in 0..6
    /\ returned[1].dayOfWeek = WeekdayOf(Field(call.row.pickup_datetime, 1, 4),
                                         Field(call.row.pickup_datetime, 6, 7),
                                         Field(call.row.pickup_datetime, 9, 10))
    /\ returned[1].isWeekend \in {0, 1}
    /\ returned[1].isWeekend = 1 <=> returned[1].dayOfWeek \in {0, 6}

\* a record picked up on a Saturday at midnight
C14_Witness ==
  /\ RowAccepted
  /\ returned[1].hourOfDay = 0
  /\ returned[1].dayOfWeek = 6
  /\ returned[1].isWeekend = 1

(***************************************************************************)
(* C15.  The derived fields of a clean record are a function of the raw    *)
(* row alone: whenever the same raw row is processed twice, in whatever    *)
(* run states (stats, seen-set, batch, position in the source), the two    *)
(* decisions to accept or reject agree and the accepted records have the   *)
(* same distance, speed, hourOfDay, dayOfWeek and weekend flag.            *)
(***************************************************************************)
\* the row step processed the row (its raw identifier was not in the seen-set)
Processed(o) == call.row.id \notin o.before.seenIds

AcceptedIn(o) == o.after.stats.validRows = o.before.stats.validRows + 1

RejectedIn(o) == o.after.stats.missingValues = o.before.stats.missingValues + 1

KeptRecord(o) == o.after.batch[Len(o.after.batch)]

DerivedFields(rec) ==
  <<rec.tripDistance, rec.tripSpeed, rec.hourOfDay, rec.dayOfWeek, rec.isWeekend>>

C15_DerivedFieldsPure ==
  call.fn = "onDataRow" =>
    \A i, j \in 1..Len(returned) :
      (Processed(returned[i]) /\ Processed(returned[j])) =>
        /\ AcceptedIn(returned[i]) <=> AcceptedIn(returned[j])
        /\ RejectedIn(returned[i]) <=> ~AcceptedIn(returned[i])
        /\ AcceptedIn(returned[i]) =>
             DerivedFields(KeptRecord(returned[i])) = DerivedFields(KeptRecord(returned[j]))

\* the same row accepted in a fresh run and in a run that holds a record in
\* its batch
C15_Witness ==
  /\ call.fn = "onDataRow"
  /\ Len(returned) = 2
  /\ returned[1].before = FreshRun
  /\ returned[2].before.batch # <<>>
  /\ AcceptedIn(returned[1])
  /\ AcceptedIn(returned[2])

(***************************************************************************)
(* C16.  calculateSpeed(d, 0) is 0 for every distance d, and for every     *)
(* duration t other than 0 it is d divided by (t / 3600) (here in metres   *)
(* per hour, rounded towards zero).                                        *)
(***************************************************************************)
C16_SpeedDefined ==
  (call.fn = "calculateSpeed" /\ returned # <<>>) =>
    /\ call.durationSeconds = 0 => returned[1] = 0
    /\ call.durationSeconds # 0 =>
         /\ Abs(returned[1]) * Abs(call.durationSeconds) <= call.distanceM * 3600
         /\ call.distanceM * 3600 < (Abs(returned[1]) + 1) * Abs(call.durationSeconds)
         /\ returned[1] # 0 => (returned[1] > 0 <=> call.durationSeconds > 0)

\* the speed of a positive distance in 0 s
C16_Witness ==
  /\ call.fn = "calculateSpeed"
  /\ call.distanceM > 0
  /\ call.durationSeconds = 0
  /\ returned = <<0>>

(***************************************************************************)
(* C17.  For all points a and b of the bounding box,                       *)
(* calculateHaversineDistance(a, b) = calculateHaversineDistance(b, a),    *)
(* calculateHaversineDistance(a, a) = 0, and the distance is never         *)
(* negative.                                                               *)
(***************************************************************************)
C17_DistanceSymmetric ==
  (call.fn = "calculateHaversineDistance" /\ returned # <<>>) =>
    /\ returned[1] = calculateHaversineDistance(call.b.lat, call.b.lon, call.a.lat, call.a.lon)
    /\ returned[1] >= 0
    /\ call.a = call.b => returned[1] = 0

\* the distance between two points that differ in latitude and in longitude
C17_Witness ==
  /\ call.fn = "calculateHaversineDistance"
  /\ call.a.lat # call.b.lat
  /\ call.a.lon # call.b.lon
  /\ returned # <<>>
  /\ returned[1] > 0

(***************************************************************************)
(* C18.  Two runs whose record events interleave in any order do not       *)
(* influence each other's seen-set or counters: at every point, and so at  *)
(* its end, each run has the validRows, duplicates, missingValues and      *)
(* seen-set that the run has when it handles its rows alone, also when     *)
(* the same identifiers appear in both sources.                            *)
(***************************************************************************)
\* one more row handled by a run that is alone: a sampled run that has its
\* target ignores the row
AloneStep(r, loc, row) ==
  IF ~r.isFull /\ loc.stats.validRows >= r.sampleSize THEN loc
  ELSE IF row.id \in loc.seenIds THEN [loc EXCEPT !.stats.duplicates = @ + 1]
  ELSE IF ~Accepts(row) THEN [loc EXCEPT !.stats.missingValues = @ + 1]
  ELSE [loc EXCEPT !.stats.validRows = @ + 1, !.seenIds = @ \cup {row.id}]

\* the locals (the batch left out) of the run r after the first n rows of sq
RECURSIVE Alone(_, _, _)
Alone(r, sq, n) ==
  IF n = 0 THEN FreshRun ELSE AloneStep(r, Alone(r, sq, n - 1), sq[n])

Counters(st) == <<st.validRows, st.duplicates, st.missingValues>>

\* the counters and the seen-set of the locals loc are those of the run r
SameAsAlone(r, loc) == Counters(r.stats) = Counters(loc.stats) /\ r.seenIds = loc.seenIds

C18_RunsIndependent ==
  \A k \in 1..2 : SameAsAlone(runs[k], Alone(runs[k], runs[k].rows, Len(runs[k].rows)))

\* both runs have returned, both sources began with the identifier "a", both
\* runs accepted it, and the second run counted a duplicate of its own
C18_Witness ==
  /\ runs[1].result = "resolved" /\ runs[2].result = "resolved"
  /\ runs[1].rows # <<>> /\ runs[1].rows[1] = RowA
  /\ runs[2].rows # <<>> /\ runs[2].rows[1] = RowA
  /\ runs[1].stats.validRows >= 1
  /\ runs[2].stats.validRows = 1
  /\ runs[2].stats.duplicates = 1

(***************************************************************************)
(* C19.  A GET /api/export request whose filter parameters are valid       *)
(* (each absent or a number) is answered with a CSV body and not with an   *)
(* error status.  The handler sets limit: 10000 and validates the filter   *)
(* with tripFilterSchema, whose limit is at most 1000: the parse throws    *)
(* for every request and the catch answers 500.                            *)
(***************************************************************************)
\* every numeric parameter of the query is absent or parses as a number
ValidFilterParams(q) ==
  /\ zNumberOptional(optFloat(q.minDistance))
  /\ zNumberOptional(optFloat(q.maxDistance))
  /\ zNumberOptional(optInt(q.minDuration, Undefined))
  /\ zNumberOptional(optInt(q.maxDuration, Undefined))

C19_ExportAnswersCsv ==
  ( /\ request.path = "/api/export"
    /\ response # NoResponse
    /\ ValidFilterParams(request.query) )
  => (response.status = 200 /\ response.type = "text/csv")

(***************************************************************************)
(* C20 as stated.  Within one run, every occurrence of an identifier after *)
(* its first occurrence in the source is counted under duplicates, whether *)
(* or not the first occurrence passed validation.                          *)
(***************************************************************************)
\* row i of sq repeats the raw identifier of an earlier row
Repeats(sq, i) == \E j \in 1..(i - 1) : sq[j].id = sq[i].id

C20_RepeatsCountedAsDuplicates ==
  stats.duplicates = Cardinality({i \in 1..stats.totalRows : Repeats(rows, i)})

(***************************************************************************)
(* C20 as amended.  Within one run, every occurrence of an identifier      *)
(* after an accepted occurrence of it is counted under duplicates, whether *)
(* or not the later occurrence would itself pass validation; an occurrence *)
(* that follows only rejected occurrences of its identifier is validated   *)
(* like a first one, and counted under validRows or missingValues.         *)
(***************************************************************************)
\* row i of sq repeats the raw identifier of an earlier row that passes validation
RepeatsValid(sq, i) == \E j \in 1..(i - 1) : sq[j].id = sq[i].id /\ Accepts(sq[j])

C20_DuplicatesFollowAccepted ==
  /\ stats.duplicates =
       Cardinality({i \in 1..stats.totalRows : RepeatsValid(rows, i)})
  /\ stats.validRows =
       Cardinality({i \in 1..stats.totalRows : ~RepeatsValid(rows, i) /\ Accepts(rows[i])})
  /\ stats.missingValues =
       Cardinality({i \in 1..stats.totalRows : ~RepeatsValid(rows, i) /\ ~Accepts(rows[i])})

\* a malformed "a" is rejected, the valid "a" after it is accepted and is no
\* duplicate, and the malformed "a" after that is a duplicate
C20_Witness ==
  /\ CountedRows = <<RowMalformedA, RowA, RowMalformedA>>
  /\ stats.missingValues = 1
  /\ stats.validRows = 1
  /\ stats.duplicates = 1

(***************************************************************************)
(* C21.  In every run each batch handed to the sink before the end of the  *)
(* source holds exactly batchSize records, a flush happening exactly when  *)
(* validRows reaches a multiple of batchSize, and once the source is over  *)
(* exactly one further batch, of validRows mod batchSize records, has been *)
(* handed over if and only if validRows mod batchSize # 0.  The sampled    *)
(* run that destroys its stream gets no 'end' and hands no further batch.  *)
(***************************************************************************)
ThresholdInserts == SelectKind(inserts, "threshold")

FinalInserts == SelectKind(inserts, "final")

C21_FlushAtMultiples ==
  /\ \A i \in 1..Len(ThresholdInserts) : Len(ThresholdInserts[i].batch) = batchSize
  /\ Len(ThresholdInserts) = stats.validRows \div batchSize
  /\ Len(batch) = stats.validRows % batchSize
  /\ Len(FinalInserts) <= 1
  /\ stream \notin {"ended", "destroyed"} => FinalInserts = <<>>
  /\ stream \in {"ended", "destroyed"} =>
       /\ Len(FinalInserts) = 1 <=> stats.validRows % batchSize # 0
       /\ \A i \in 1..Len(FinalInserts) :
            Len(FinalInserts[i].batch) = stats.validRows % batchSize

(***************************************************************************)
(* C22.  While a bulk insert of a run is in flight the handler processes   *)
(* no further row: totalRows, validRows, duplicates, missingValues, the    *)
(* seen-set and the batch stay as they are until the insert settles, in    *)
(* full and in sampled mode.  processCSVFile does not pause its stream     *)
(* and does not await the insert, so its handler goes on with the next row.*)
(***************************************************************************)
IngestState ==
  <<stats.totalRows, stats.validRows, stats.duplicates, stats.missingValues, seenIds, batch>>

C22_NoRowWhileInsertInFlight ==
  [][~NoInsertInFlight => IngestState' = IngestState]_vars

(***************************************************************************)
(* C23.  At every point of a run at most one bulk insert is in flight, so  *)
(* the accepted records held in memory, the batch and the batches whose    *)
(* insert has not settled, are never more than twice the batch size.       *)
(* processCSVFile starts a new insert at every threshold without waiting   *)
(* for the one before.                                                     *)
(***************************************************************************)
InFlight == {i \in 1..Len(inserts) : inserts[i].status = "inflight"}

\* the final insert is handed the batch itself, not a copy of it
HeldInMemory == Len(batch) + SizeWithStatus(ThresholdInserts, "inflight")

C23_OneInsertInFlight ==
  /\ Cardinality(InFlight) <= 1
  /\ HeldInMemory <= 2 * batchSize

(***************************************************************************)
(* C24.  In a sampled run with target sampleSize, validRows never exceeds  *)
(* the target, and once validRows = sampleSize no later row of the source  *)
(* changes totalRows, validRows, duplicates, missingValues, the seen-set   *)
(* or the batch.                                                           *)
(***************************************************************************)
TargetReached == ~isFull /\ stats.validRows = sampleSize

C24_SampleStopsAtTarget ==
  /\ [](~isFull => stats.validRows <= sampleSize)
  /\ [][TargetReached => IngestState' = IngestState]_vars

\* the target was reached and the stream then delivered a row that would have
\* been accepted
C24_Witness ==
  /\ TargetReached
  /\ Len(rows) > stats.totalRows
  /\ Accepts(rows[Len(rows)])
  /\ rows[Len(rows)].id \notin seenIds

(***************************************************************************)
(* C25.  Every rejection of a row carries the reason of the first check    *)
(* that fails, in the order structural (malformed), geofence (out of       *)
(* bounds), timestamp (malformed), plausibility (outlier), so that what    *)
(* the handler gets from processRow, or what the row does to the stats,    *)
(* tells a malformed row from an out-of-bounds row from an outlier.        *)
(* processRow returns the same null for every rejection and the handler    *)
(* counts every rejection under missingValues.                             *)
(***************************************************************************)
StructureFails(raw) ==
  \/ trim(raw.id) = <<>>
  \/ isNaN(parseInt(raw.vendor_id))
  \/ isNaN(parseInt(raw.passenger_count))
  \/ isNaN(parseFloat(raw.pickup_longitude))
  \/ isNaN(parseFloat(raw.pickup_latitude))
  \/ isNaN(parseFloat(raw.dropoff_longitude))
  \/ isNaN(parseFloat(raw.dropoff_latitude))
  \/ isNaN(parseInt(raw.trip_duration))
  \/ trim(raw.store_and_fwd_flag) = <<>>

TimestampFails(raw) ==
  isNaN(newDate(raw.pickup_datetime)) \/ isNaN(newDate(raw.dropoff_datetime))

PlausibilityFails(n) ==
  ~Plausible(n.duration, DerivedDistance(n), calculateSpeed(DerivedDistance(n), n.duration))

\* the reason of the first check that fails on a raw row, or "none"
FirstFailure(raw) ==
  IF StructureFails(raw) THEN "malformed"
  ELSE IF ~InBox(ParsedRow(raw).plat, ParsedRow(raw).plon)
          \/ ~InBox(ParsedRow(raw).dlat, ParsedRow(raw).dlon) THEN "out_of_bounds"
  ELSE IF TimestampFails(raw) THEN "malformed"
  ELSE IF PlausibilityFails(ParsedRow(raw)) THEN "outlier"
  ELSE "none"

\* FirstFailure of every row a source may deliver, computed once
FailureOfRows == [row \in Rows |-> FirstFailure(row)]

\* what a row shows of its fate in the run state run: what processRow gave
\* the handler, and the stats after the row
ShownBy(run, row) == <<ProcessedRows[row], onDataRow(run, row).stats>>

C25_RejectionCarriesReason ==
  call.fn = "onDataRow" =>
    \A i \in 1..Len(returned) :
      \A other \in Rows :
        ( /\ Processed(returned[i])
          /\ other.id \notin returned[i].before.seenIds
          /\ FailureOfRows[call.row] # FailureOfRows[other] )
        => ShownBy(returned[i].before, other) # <<ProcessedRows[call.row], returned[i].after.stats>>

(***************************************************************************)
(* C26.  Processing a row that is rejected, as a duplicate or as invalid,  *)
(* raises no exception and changes only totalRows and exactly one of       *)
(* duplicates and missingValues, each by one: validRows, inserted, the     *)
(* seen-set and the batch are left as they are, and the run goes on with   *)
(* the next row.                                                           *)
(***************************************************************************)
\* the step delivers a row to the handler and the handler processes it (a
\* sampled run that has reached its target does not)
RowProcessedStep ==
  /\ Len(rows') = Len(rows) + 1
  /\ isFull \/ stats.validRows < sampleSize

DeliveredRow == rows'[Len(rows')]

RejectionFrame ==
  (RowProcessedStep /\ (DeliveredRow.id \in seenIds \/ ~Accepts(DeliveredRow))) =>
    /\ stats' = IF DeliveredRow.id \in seenIds
                THEN [stats EXCEPT !.totalRows = @ + 1, !.duplicates = @ + 1]
                ELSE [stats EXCEPT !.totalRows = @ + 1, !.missingValues = @ + 1]
    /\ seenIds' = seenIds /\ batch' = batch /\ inserts' = inserts
    /\ stream' = stream /\ result' = result /\ pc' = pc /\ exitCode' = exitCode
    /\ srcFailed' = srcFailed

C26_RejectionChangesOneCounter == [][RejectionFrame]_vars

\* an out-of-bounds row was rejected, the next row was accepted, and its
\* repeat was rejected as a duplicate; the stream still flows
C26_Witness ==
  /\ rows = <<RowOutOfBoundsB, RowB, RowB>>
  /\ stats.totalRows = 3
  /\ stats.missingValues = 1 /\ stats.validRows = 1 /\ stats.duplicates = 1
  /\ seenIds = {RowB.id}
  /\ stream = "flowing" /\ result.kind = "pending"

(***************************************************************************)
(* C27.  At every point of a run the seen-set is exactly the set of the    *)
(* raw identifiers of the rows accepted so far: it never shrinks, its size *)
(* is validRows, and the identifier of a row rejected as invalid or as an  *)
(* outlier is not added to it.                                             *)
(***************************************************************************)
AcceptedRawIds ==
  {CountedRows[i].id : i \in {j \in 1..stats.totalRows : FirstValid(CountedRows, j)}}

SeenSetStep ==
  /\ seenIds \subseteq seenIds'
  /\ (RowProcessedStep /\ ~Accepts(DeliveredRow)) => seenIds' = seenIds

C27_SeenSetIsAcceptedIds ==
  /\ [](seenIds = AcceptedRawIds /\ Cardinality(seenIds) = stats.validRows)
  /\ [][SeenSetStep]_vars

\* "a" and "a " were accepted, and the out-of-bounds row between them left its
\* identifier "b" out of the seen-set
C27_Witness ==
  /\ CountedRows = <<RowA, RowOutOfBoundsB, RowASpace>>
  /\ seenIds = {RowA.id, RowASpace.id}
  /\ RowOutOfBoundsB.id \notin seenIds
  /\ stats.validRows = 2

(***************************************************************************)
(* C28 as stated.  In every state of a run validRows = inserted + the size *)
(* of the batch in memory + the size of the batches whose insert is in     *)
(* flight + the size of the batches whose insert failed; hence inserted <= *)
(* validRows.                                                              *)
(***************************************************************************)
C28_ValidRowsAccounting ==
  /\ stats.validRows = stats.inserted + Len(batch)
                       + SizeWithStatus(inserts, "inflight")
                       + SizeWithStatus(inserts, "failed")
  /\ stats.inserted <= stats.validRows

(***************************************************************************)
(* C28 as amended.  In every state of a run validRows = inserted + the     *)
(* size of the batch not yet handed to the sink + the size of the batches  *)
(* whose insert is in flight + the size of the batches whose insert        *)
(* failed, and inserted <= validRows.  The 'end' handler hands the batch   *)
(* itself to the final insert and does not clear it, so from then on the   *)
(* batch in memory is the final insert's batch and is counted once, with   *)
(* that insert.                                                            *)
(***************************************************************************)
UnhandedBatch == IF FinalInserts = <<>> THEN Len(batch) ELSE 0

C28_ValidRowsAccountingOnce ==
  /\ stats.validRows = stats.inserted + UnhandedBatch
                       + SizeWithStatus(inserts, "inflight")
                       + SizeWithStatus(inserts, "failed")
  /\ stats.inserted <= stats.validRows
  /\ \A i \in 1..Len(FinalInserts) : FinalInserts[i].batch = batch

\* a threshold insert failed, and the final insert of the batch still in
\* memory succeeded
C28_Witness ==
  /\ \E i, k \in 1..Len(inserts) :
       /\ inserts[i].kind = "threshold" /\ inserts[i].status = "failed"
       /\ inserts[k].kind = "final" /\ inserts[k].status = "ok"
  /\ Len(batch) > 0
  /\ stats.inserted = Len(batch)
  /\ stats.validRows > stats.inserted

(***************************************************************************)
(* C29.  sortTrips terminates and returns for every finite array of trips, *)
(* every sort field and both orders, arrays in which two or more trips     *)
(* have null in the sort field included, and the trips with null are       *)
(* placed after all trips with a value.  compareFn answers 1 whenever its  *)
(* first argument is null, the pivot compared with itself included, so an  *)
(* array of two or more nulls is partitioned into an empty less, an empty  *)
(* equal and itself as greater, and the recursion never ends.              *)
(***************************************************************************)
SortReturned == call.fn = "sortTrips" /\ returned # <<>>

NullsLast(out, field) ==
  \A i, j \in 1..Len(out) :
    (out[i][field].type = "null" /\ out[j][field].type # "null") => j < i

C29_SortTripsReturns ==
  SortReturned =>
    /\ ~returned[1].out.threw
    /\ NullsLast(returned[1].out.value, call.field)

(***************************************************************************)
(* C30.  For every finite array and every comparator that is a consistent  *)
(* total preorder (compare(x, x) = 0, antisymmetric in sign, transitive),  *)
(* manualQuickSort returns a permutation of the input in which every       *)
(* element compares less than or equal to its successor, and it leaves the *)
(* input array's contents as they were.                                    *)
(***************************************************************************)
QuickSortReturned == call.fn = "manualQuickSort" /\ returned # <<>>

Occurrences(sq, e) == Cardinality({i \in 1..Len(sq) : sq[i] = e})

PermutationOf(out, arr) ==
  /\ Len(out) = Len(arr)
  /\ \A e \in Elems : Occurrences(out, e) = Occurrences(arr, e)

SortedBy(out, compareFn) ==
  \A i \in 1..(Len(out) - 1) : compareFn[<<out[i], out[i + 1]>>] <= 0

C30_QuickSortSorts ==
  (QuickSortReturned /\ Consistent(call.compareFn)) =>
    /\ ~returned[1].out.threw
    /\ PermutationOf(returned[1].out.value, returned[1].given)
    /\ SortedBy(returned[1].out.value, call.compareFn)
    /\ call.arr = returned[1].given

\* an array of three with a repeated element, out of order under a comparator
\* that ties no two distinct elements, has been sorted
C30_Witness ==
  /\ QuickSortReturned
  /\ Consistent(call.compareFn)
  /\ \A x, y \in Elems : x # y => call.compareFn[<<x, y>>] # 0
  /\ Len(call.arr) = 3
  /\ \E i, j \in 1..3 : i # j /\ call.arr[i] = call.arr[j]
  /\ ~SortedBy(call.arr, call.compareFn)
  /\ returned[1].out.value # call.arr

====
